---- MODULE Spec2Model ----
(***************************************************************************)
(* A model of generate_der.js: the scan of an SQL dump for CREATE TABLE    *)
(* statements, the split of each table body into columns and constraints,  *)
(* the second scan for ALTER TABLE ... FOREIGN KEY statements, and the     *)
(* rendering of the schema as one document or as partitions plus an index. *)
(*                                                                         *)
(* Text is a sequence of one-character strings, so that the regular        *)
(* expressions and the string functions of the script are modelled by what *)
(* they do to the characters.                                              *)
(***************************************************************************)
EXTENDS Integers, Sequences, FiniteSets, TLC

VARIABLES sql, pc, lastIndex, match, tables, relationships,
          partition, indexContent, writes, arg, ret

vars == <<sql, pc, lastIndex, match, tables, relationships,
          partition, indexContent, writes, arg, ret>>

\* the null of String.prototype.match: the groups of a match are a non-empty
\* sequence, null is the empty one
null == <<>>

\* the null of RegExp.prototype.exec, and a failed try at one position; a
\* match is a record with ok, the groups and, for exec, the index of its
\* start and the lastIndex after it, both 0-based
NoMatch == [ok |-> FALSE]

-----------------------------------------------------------------------------
(* Characters and the string primitives of the script                      *)

LowerToUpper ==
  [a |-> "A", b |-> "B", c |-> "C", d |-> "D", e |-> "E", f |-> "F", g |-> "G",
   h |-> "H", i |-> "I", j |-> "J", k |-> "K", l |-> "L", m |-> "M", n |-> "N",
   o |-> "O", p |-> "P", q |-> "Q", r |-> "R", s |-> "S", t |-> "T", u |-> "U",
   v |-> "V", w |-> "W", x |-> "X", y |-> "Y", z |-> "Z"]

UpperLetters == {LowerToUpper[c] : c \in DOMAIN LowerToUpper}

Digits == {"0", "1", "2", "3", "4", "5", "6", "7", "8", "9"}

\* the backquote character, which a TLA+ string cannot hold
Backquote == "backquote"

\* the class ["`\[\]], written here without the backquote itself
QuoteChars == {"\"", Backquote, "[", "]"}

\* the class [a-zA-Z0-9_]
WordChar == DOMAIN LowerToUpper \cup UpperLetters \cup Digits \cup {"_"}

\* the class \s, for the characters the model's texts use
IsSpace(c) == c \in {" ", "\n", "\t"}

ToUpper(c) == IF c \in DOMAIN LowerToUpper THEN LowerToUpper[c] ELSE c

toUpperCase(s) == [i \in 1..Len(s) |-> ToUpper(s[i])]

\* String.prototype.includes, for a non-empty needle
includes(s, sub) ==
  \E i \in 1..(Len(s) - Len(sub) + 1) :
    \A j \in 1..Len(sub) : s[i + j - 1] = sub[j]

\* String.prototype.trim
trim(s) ==
  LET keep == {i \in 1..Len(s) : ~IsSpace(s[i])}
  IN  IF keep = {} THEN <<>>
      ELSE LET first == CHOOSE i \in keep : \A j \in keep : i <= j
               last  == CHOOSE i \in keep : \A j \in keep : i >= j
           IN  SubSeq(s, first, last)

RECURSIVE Flatten(_)
Flatten(ss) == IF ss = <<>> THEN <<>> ELSE Head(ss) \o Flatten(Tail(ss))

\* s.replace(/[class]/g, with): every character of the class becomes `with`
ReplaceAll(s, class, with) ==
  Flatten([i \in 1..Len(s) |-> IF s[i] \in class THEN with ELSE <<s[i]>>])

\* a bug to test the claims against: replace without the g flag, only the
\* first disallowed character is replaced
ReplaceFirstDisallowed(s) ==
  LET bad == {i \in 1..Len(s) : s[i] \notin WordChar}
  IN  IF bad = {} THEN s
      ELSE LET first == CHOOSE i \in bad : \A j \in bad : i <= j
           IN  [s EXCEPT ![first] = "_"]

\* s.replace(/[^a-zA-Z0-9_]/g, '_')
ReplaceDisallowed(s) ==
  [i \in 1..Len(s) |-> IF s[i] \in WordChar THEN s[i] ELSE "_"]

cleanName(name) ==
  trim(ReplaceDisallowed(
         ReplaceAll(ReplaceAll(ReplaceAll(name, QuoteChars, <<>>),
                               {"."}, <<"_">>),
                    {"#"}, <<"_", "N", "U", "M">>)))

-----------------------------------------------------------------------------
(* Keywords, as character sequences                                        *)

kVARCHAR    == <<"V", "A", "R", "C", "H", "A", "R">>
kCHAR       == <<"C", "H", "A", "R">>
kNUMBER     == <<"N", "U", "M", "B", "E", "R">>
kINTEGER    == <<"I", "N", "T", "E", "G", "E", "R">>
kDECIMAL    == <<"D", "E", "C", "I", "M", "A", "L">>
kDATE       == <<"D", "A", "T", "E">>
kTIMESTAMP  == <<"T", "I", "M", "E", "S", "T", "A", "M", "P">>
kCLOB       == <<"C", "L", "O", "B">>
kBLOB       == <<"B", "L", "O", "B">>
kCREATE     == <<"C", "R", "E", "A", "T", "E">>
kTABLE      == <<"T", "A", "B", "L", "E">>
kALTER      == <<"A", "L", "T", "E", "R">>
kADD        == <<"A", "D", "D">>
kCONSTRAINT == <<"C", "O", "N", "S", "T", "R", "A", "I", "N", "T">>
kPRIMARY    == <<"P", "R", "I", "M", "A", "R", "Y">>
kFOREIGN    == <<"F", "O", "R", "E", "I", "G", "N">>
kKEY        == <<"K", "E", "Y">>
kREFERENCES == <<"R", "E", "F", "E", "R", "E", "N", "C", "E", "S">>
kPARTITION  == <<"P", "A", "R", "T", "I", "T", "I", "O", "N">>
kNOT        == <<"N", "O", "T">>
kNULL       == <<"N", "U", "L", "L">>
SP          == <<" ">>
kPRIMARY_KEY == kPRIMARY \o SP \o kKEY
kFOREIGN_KEY == kFOREIGN \o SP \o kKEY
kNOT_NULL    == kNOT \o SP \o kNULL

-----------------------------------------------------------------------------
(* simplifyDataType                                                        *)

\* a bug to test the claims against: the NUMBER rule tried before the STRING rule
simplifyDataTypeNumberFirst(dataType) ==
  LET type == toUpperCase(dataType)
  IN  IF includes(type, kNUMBER) \/ includes(type, kINTEGER) \/ includes(type, kDECIMAL)
        THEN "NUMBER"
      ELSE IF includes(type, kVARCHAR) \/ includes(type, kCHAR) THEN "STRING"
      ELSE IF includes(type, kDATE) \/ includes(type, kTIMESTAMP) THEN "DATE"
      ELSE IF includes(type, kCLOB) \/ includes(type, kBLOB) THEN "LOB"
      ELSE "OTHER"

simplifyDataType(dataType) ==
  LET type == toUpperCase(dataType)
  IN  IF includes(type, kVARCHAR) \/ includes(type, kCHAR) THEN "STRING"
      ELSE IF includes(type, kNUMBER) \/ includes(type, kINTEGER) \/ includes(type, kDECIMAL)
        THEN "NUMBER"
      ELSE IF includes(type, kDATE) \/ includes(type, kTIMESTAMP) THEN "DATE"
      ELSE IF includes(type, kCLOB) \/ includes(type, kBLOB) THEN "LOB"
      ELSE "OTHER"

-----------------------------------------------------------------------------
(* The split of a table body by top-level commas                           *)

\* a bug to test the claims against: the count is never changed, so every
\* comma splits
CountIgnored(count, c) == count

\* parenthesesCount after the character c
CountAfter(count, c) ==
  IF c = "(" THEN count + 1 ELSE IF c = ")" THEN count - 1 ELSE count

\* the for loop: i is the next index, acc the lines pushed so far
RECURSIVE SplitLoop(_, _, _, _, _)
SplitLoop(tableDefinition, i, acc, currentLine, parenthesesCount) ==
  IF i > Len(tableDefinition)
    THEN IF trim(currentLine) # <<>> THEN Append(acc, trim(currentLine)) ELSE acc
    ELSE LET char  == tableDefinition[i]
             count == CountAfter(parenthesesCount, char)
         IN  IF char = "," /\ count = 0
               THEN SplitLoop(tableDefinition, i + 1, Append(acc, trim(currentLine)),
                              <<>>, count)
               ELSE SplitLoop(tableDefinition, i + 1, acc,
                              Append(currentLine, char), count)

lines(tableDefinition) == SplitLoop(tableDefinition, 1, <<>>, <<>>, 0)

-----------------------------------------------------------------------------
(* Regular expressions, by what they match.  A position is an index into   *)
(* the text, 1-based; a regular expression's lastIndex n (0-based) is the  *)
(* position n + 1.                                                         *)

\* the least p in lo..hi with P(p), or 0
RECURSIVE First(_, _, _)
First(P(_), lo, hi) ==
  IF lo > hi THEN 0
  ELSE IF lo = hi THEN (IF P(lo) THEN lo ELSE 0)
  ELSE LET mid  == (lo + hi) \div 2
           left == First(P, lo, mid)
       IN  IF left # 0 THEN left ELSE First(P, mid + 1, hi)

\* the greatest p in lo..hi with P(p), or 0
RECURSIVE Last(_, _, _)
Last(P(_), lo, hi) ==
  IF lo > hi THEN 0
  ELSE IF lo = hi THEN (IF P(lo) THEN lo ELSE 0)
  ELSE LET mid   == (lo + hi) \div 2
           right == Last(P, mid + 1, hi)
       IN  IF right # 0 THEN right ELSE Last(P, lo, mid)

\* a keyword under the i flag, at position p
KeywordAt(t, p, w) ==
  /\ p >= 1
  /\ p + Len(w) - 1 <= Len(t)
  /\ \A j \in 1..Len(w) : ToUpper(t[p + j - 1]) = w[j]

\* the position a search found, or the position after the text's end
OrEnd(t, q) == IF q = 0 THEN Len(t) + 1 ELSE q

\* the end of a greedy run starting at p: the first position at or after p
\* whose character is white space or in stops, Len(t) + 1 when there is none
RunEnd(t, p, stops) ==
  OrEnd(t, First(LAMBDA i : IsSpace(t[i]) \/ t[i] \in stops, p, Len(t)))

\* \s* from p: the first position at or after p that is not white space
SkipSpaces(t, p) == OrEnd(t, First(LAMBDA i : ~IsSpace(t[i]), p, Len(t)))

\* \s+ from a: b is the position after the white space; 0 when there is none
AtLeastOne(a, b) == IF b = a THEN 0 ELSE b

\* KEYWORD\s+ at p: the position after the white space, or 0
KeywordSpaces(t, p, w) ==
  IF ~KeywordAt(t, p, w) THEN 0
  ELSE AtLeastOne(p + Len(w), SkipSpaces(t, p + Len(w)))

\* the first position at or after p that holds the character ch, or 0
IndexOf(t, ch, p) == First(LAMBDA i : t[i] = ch, p, Len(t))

\* \(([^)]+)\) at position o, whose ")" is at position c: the group and the
\* position after the ")"
ParenGroup(t, o, c) ==
  IF c = 0 \/ c = o + 1 THEN NoMatch
  ELSE [ok |-> TRUE, group |-> SubSeq(t, o + 1, c - 1), end |-> c + 1]

ParenList(t, o) ==
  IF o > Len(t) THEN NoMatch
  ELSE IF t[o] # "(" THEN NoMatch
  ELSE ParenGroup(t, o, IndexOf(t, ")", o + 1))

\* createTableRegex tried at position s, stage by stage: b is the position
\* after CREATE\s+, q the start of the name, e its end, o the "(", c the ")"
\* that ends the lazy body (the first one, since [^;]* takes what follows
\* it) and sc the ";".  The result is the match or NoMatch.
CreateTableMatch(t, s, q, e, o, c, sc) ==
  IF sc = 0 THEN NoMatch
  ELSE [ok |-> TRUE,
        index |-> s - 1,
        groups |-> <<SubSeq(t, q, e - 1), SubSeq(t, o + 1, c - 1)>>,
        lastIndex |-> sc]

CreateTableBody(t, s, q, e, o, c) ==
  IF c = 0 THEN NoMatch
  ELSE CreateTableMatch(t, s, q, e, o, c, IndexOf(t, ";", c + 1))

CreateTableOpen(t, s, q, e, o) ==
  IF o > Len(t) THEN NoMatch
  ELSE IF t[o] # "(" THEN NoMatch
  ELSE CreateTableBody(t, s, q, e, o, IndexOf(t, ")", o + 1))

CreateTableName(t, s, q, e) ==
  IF e = q THEN NoMatch ELSE CreateTableOpen(t, s, q, e, SkipSpaces(t, e))

CreateTableKeyword(t, s, q) ==
  IF q = 0 THEN NoMatch ELSE CreateTableName(t, s, q, RunEnd(t, q, {"("}))

CreateTableAt(t, s) ==
  IF ~KeywordAt(t, s, kCREATE) THEN NoMatch
  ELSE CreateTableKeyword(t, s,
         KeywordSpaces(t, KeywordSpaces(t, s, kCREATE), kTABLE))

\* the match at the position a search found, or NoMatch
CreateTableFound(t, s) == IF s = 0 THEN NoMatch ELSE CreateTableAt(t, s)

\* createTableRegex.exec(t) with the given lastIndex
createTableRegex(t, from) ==
  CreateTableFound(t, First(LAMBDA i : CreateTableAt(t, i).ok, from + 1, Len(t)))

\* /PRIMARY\s+KEY\s*\(([^)]+)\)/i tried at position p
PrimaryKeyList(l) == IF ~l.ok THEN NoMatch ELSE [ok |-> TRUE, groups |-> <<l.group>>]

PrimaryKeyKey(t, b) ==
  IF ~KeywordAt(t, b, kKEY) THEN NoMatch
  ELSE PrimaryKeyList(ParenList(t, SkipSpaces(t, b + Len(kKEY))))

PrimaryKeyAt(t, p) ==
  IF ~KeywordAt(t, p, kPRIMARY) THEN NoMatch
  ELSE PrimaryKeyKey(t, KeywordSpaces(t, p, kPRIMARY))

PrimaryKeyFound(line, p) == IF p = 0 THEN null ELSE PrimaryKeyAt(line, p).groups

\* line.match(/PRIMARY\s+KEY\s*\(([^)]+)\)/i): the groups, or null
pkMatch(line) ==
  PrimaryKeyFound(line, First(LAMBDA i : PrimaryKeyAt(line, i).ok, 1, Len(line)))

\* /FOREIGN\s+KEY\s*\(([^)]+)\)\s+REFERENCES\s+([^\s(]+)\s*\(([^)]+)\)/i tried
\* at position f, stage by stage: l1 is the first list, r the start of the
\* referenced table, e its end, l2 the second list.  The result has the
\* groups and the position after the match.
ForeignKeyMatch(t, l1, r, e, l2) ==
  IF ~l2.ok THEN NoMatch
  ELSE [ok |-> TRUE,
        groups |-> <<l1.group, SubSeq(t, r, e - 1), l2.group>>,
        end |-> l2.end]

ForeignKeyTarget(t, l1, r, e) ==
  IF e = r THEN NoMatch
  ELSE ForeignKeyMatch(t, l1, r, e, ParenList(t, SkipSpaces(t, e)))

ForeignKeyReferences(t, l1, r) ==
  IF r = 0 THEN NoMatch ELSE ForeignKeyTarget(t, l1, r, RunEnd(t, r, {"("}))

ForeignKeySpaces(t, l1, a) ==
  IF a = 0 THEN NoMatch
  ELSE ForeignKeyReferences(t, l1, KeywordSpaces(t, a, kREFERENCES))

ForeignKeyList(t, l1) ==
  IF ~l1.ok THEN NoMatch
  ELSE ForeignKeySpaces(t, l1, AtLeastOne(l1.end, SkipSpaces(t, l1.end)))

ForeignKeyKey(t, b) ==
  IF ~KeywordAt(t, b, kKEY) THEN NoMatch
  ELSE ForeignKeyList(t, ParenList(t, SkipSpaces(t, b + Len(kKEY))))

ForeignKeyAt(t, f) ==
  IF ~KeywordAt(t, f, kFOREIGN) THEN NoMatch
  ELSE ForeignKeyKey(t, KeywordSpaces(t, f, kFOREIGN))

ForeignKeyFound(line, f) == IF f = 0 THEN null ELSE ForeignKeyAt(line, f).groups

\* line.match(/FOREIGN\s+KEY ... /i): the groups, or null
fkMatch(line) ==
  ForeignKeyFound(line, First(LAMBDA i : ForeignKeyAt(line, i).ok, 1, Len(line)))

\* alterConstraintRegex tried at position s, stage by stage: q is the start
\* of the table name, e its end, a the position of CONSTRAINT, lim the first
\* ";" after it or the end of the text, f the position of the FOREIGN KEY
\* clause.  [^;]* is greedy: the clause taken is the last one up to lim that
\* matches.
AlterConstraintMatch(t, s, q, e, fk) ==
  [ok |-> TRUE,
   index |-> s - 1,
   groups |-> <<SubSeq(t, q, e - 1)>> \o fk.groups,
   lastIndex |-> fk.end - 1]

AlterConstraintClause(t, s, q, e, f) ==
  IF f = 0 THEN NoMatch ELSE AlterConstraintMatch(t, s, q, e, ForeignKeyAt(t, f))

AlterConstraintRest(t, s, q, e, c) ==
  AlterConstraintClause(t, s, q, e,
    Last(LAMBDA i : ForeignKeyAt(t, i).ok, c, OrEnd(t, IndexOf(t, ";", c)) - 1))

AlterConstraintWord(t, s, q, e, a) ==
  IF a = 0 THEN NoMatch
  ELSE IF ~KeywordAt(t, a, kCONSTRAINT) THEN NoMatch
  ELSE AlterConstraintRest(t, s, q, e, a + Len(kCONSTRAINT))

AlterConstraintAdd(t, s, q, e, x) ==
  IF x = 0 THEN NoMatch
  ELSE AlterConstraintWord(t, s, q, e, KeywordSpaces(t, x, kADD))

AlterConstraintName(t, s, q, e) ==
  IF e = q THEN NoMatch
  ELSE AlterConstraintAdd(t, s, q, e, AtLeastOne(e, SkipSpaces(t, e)))

AlterConstraintKeyword(t, s, q) ==
  IF q = 0 THEN NoMatch ELSE AlterConstraintName(t, s, q, RunEnd(t, q, {}))

AlterConstraintAt(t, s) ==
  IF ~KeywordAt(t, s, kALTER) THEN NoMatch
  ELSE AlterConstraintKeyword(t, s,
         KeywordSpaces(t, KeywordSpaces(t, s, kALTER), kTABLE))

AlterConstraintFound(t, s) == IF s = 0 THEN NoMatch ELSE AlterConstraintAt(t, s)

\* alterConstraintRegex.exec(t) with the given lastIndex
alterConstraintRegex(t, from) ==
  AlterConstraintFound(t,
    First(LAMBDA i : AlterConstraintAt(t, i).ok, from + 1, Len(t)))

\* /^\s*([^\s]+)\s+([^\s,\(]+)(?:\([^)]*\))?/ stage by stage: a is the start
\* of the name, e its end, b the start of the type, g its end
ColumnType(line, a, e, b, g) ==
  IF g = b THEN null ELSE <<SubSeq(line, a, e - 1), SubSeq(line, b, g - 1)>>

ColumnSpaces(line, a, e, b) ==
  IF b = e THEN null ELSE ColumnType(line, a, e, b, RunEnd(line, b, {",", "("}))

ColumnName(line, a, e) ==
  IF e = a THEN null ELSE ColumnSpaces(line, a, e, SkipSpaces(line, e))

ColumnStart(line, a) == ColumnName(line, a, RunEnd(line, a, {}))

\* line.match(/^\s*([^\s]+)\s+([^\s,\(]+)(?:\([^)]*\))?/): the groups, or null
columnMatch(line) == ColumnStart(line, SkipSpaces(line, 1))

\* s.split(','), from the position i of the first comma on
RECURSIVE split(_)
SplitAt(s, i) ==
  IF i = 0 THEN <<s>>
  ELSE <<SubSeq(s, 1, i - 1)>> \o split(SubSeq(s, i + 1, Len(s)))

split(s) == SplitAt(s, IndexOf(s, ",", 1))

\* the map of col => cleanName(col.trim()) over the parts
CleanParts(parts) == [i \in 1..Len(parts) |-> cleanName(trim(parts[i]))]

\* group.split(',').map(col => cleanName(col.trim()))
ColumnList(group) == CleanParts(split(group))

-----------------------------------------------------------------------------
(* The body of the while loop over createTableRegex: one table definition  *)

\* the filter of parsing artefacts: true when the column is dropped
IsArtifact(columnName) ==
  \/ toUpperCase(columnName) = kPARTITION
  \/ includes(columnName, <<")">>)
  \/ /\ Len(columnName) >= 2
     /\ columnName[Len(columnName)] = ")"
     /\ \A i \in 1..(Len(columnName) - 1) : columnName[i] \in Digits
  \/ toUpperCase(columnName) = kPRIMARY
  \/ toUpperCase(columnName) = kKEY
  \/ Len(columnName) = 0

\* constraints.push({ type: 'PK', columns: pkColumns }), when pkMatch is not null
PushPrimaryKey(acc, pk) ==
  IF pk = null THEN acc
  ELSE [acc EXCEPT !.constraints =
          Append(@, [type |-> "PK", columns |-> ColumnList(pk[1])])]

\* relationships.push({...}), when fkMatch is not null
PushRelationship(tableName, acc, fk) ==
  IF fk = null THEN acc
  ELSE [acc EXCEPT !.relationships =
          Append(@, [from        |-> tableName,
                     to          |-> cleanName(fk[2]),
                     fromColumns |-> ColumnList(fk[1]),
                     toColumns   |-> ColumnList(fk[3])])]

\* columns.push({...}), unless the name is a parsing artefact
PushColumn(acc, columnName, dataType, isPrimaryKey, hasNotNull) ==
  IF IsArtifact(columnName) THEN acc
  ELSE [acc EXCEPT !.columns =
          Append(@, [name         |-> columnName,
                     type         |-> dataType,
                     isPrimaryKey |-> isPrimaryKey,
                     isNotNull    |-> hasNotNull /\ ~isPrimaryKey])]

\* the column branch, when columnMatch is not null
ProcessColumn(acc, upper, cm) ==
  IF cm = null THEN acc
  ELSE PushColumn(acc, cleanName(cm[1]), simplifyDataType(cm[2]),
                  includes(upper, kPRIMARY_KEY), includes(upper, kNOT_NULL))

\* the branches on the trimmed line and its upper-case form
ProcessTrimmed(tableName, acc, line, upper) ==
  IF line = <<>> THEN acc
  ELSE IF includes(upper, kCONSTRAINT) THEN
    IF includes(upper, kPRIMARY_KEY) THEN PushPrimaryKey(acc, pkMatch(line))
    ELSE IF includes(upper, kFOREIGN_KEY)
      THEN PushRelationship(tableName, acc, fkMatch(line))
    ELSE acc
  ELSE ProcessColumn(acc, upper, columnMatch(line))

\* one iteration of `for (let line of lines)`: what the line adds to the
\* columns and constraints of the table and to the relationships
ProcessLine(tableName, acc, rawLine) ==
  ProcessTrimmed(tableName, acc, trim(rawLine), toUpperCase(trim(rawLine)))

RECURSIVE ProcessLines(_, _, _, _)
ProcessLines(tableName, acc, ls, k) ==
  IF k > Len(ls) THEN acc
  ELSE ProcessLines(tableName, ProcessLine(tableName, acc, ls[k]), ls, k + 1)

\* the columns, constraints and relationships of one matched statement
ParseTable(tableName, tableDefinition) ==
  ProcessLines(tableName,
               [columns |-> <<>>, constraints |-> <<>>, relationships |-> <<>>],
               lines(tableDefinition), 1)

\* a bug to test the claims against: the table is registered whatever its columns
AlwaysRegistered(columns) == TRUE

\* `if (columns.length > 0)`
HasValidColumns(columns) == Len(columns) > 0

\* a bug to test the claims against: an existing key keeps its first value
MapSetKeepsFirst(map, key, value) ==
  IF \E i \in 1..Len(map) : map[i].name = key
    THEN map
    ELSE Append(map, [name |-> key] @@ value)

\* Map.prototype.set on the insertion-ordered map: a new key goes last, an
\* existing key keeps its place and takes the new value
MapSet(map, key, value) ==
  IF \E i \in 1..Len(map) : map[i].name = key
    THEN [i \in 1..Len(map) |->
            IF map[i].name = key THEN [name |-> key] @@ value ELSE map[i]]
    ELSE Append(map, [name |-> key] @@ value)

\* tables.has(name)
MapHas(map, key) == \E i \in 1..Len(map) : map[i].name = key

-----------------------------------------------------------------------------
(* Source texts                                                            *)

LP    == <<"(">>
RP    == <<")">>
SEMI  == <<";">>
NL    == <<"\n">>

\* CREATE TABLE name (body);
CreateTable(name, body) ==
  kCREATE \o SP \o kTABLE \o SP \o name \o SP \o LP \o body \o RP \o SEMI

\* ALTER TABLE name ADD CONSTRAINT cname FOREIGN KEY (cols) REFERENCES target (tcols);
AlterTable(name, cname, cols, target, tcols) ==
  kALTER \o SP \o kTABLE \o SP \o name \o SP \o kADD \o SP \o kCONSTRAINT \o SP
    \o cname \o SP \o kFOREIGN_KEY \o SP \o LP \o cols \o RP \o SP
    \o kREFERENCES \o SP \o target \o SP \o LP \o tcols \o RP \o SEMI

nEMP == <<"E", "M", "P">>
nORD == <<"O", "R", "D">>
nID  == <<"I", "D">>
nEMP_ID == <<"E", "M", "P", "_", "I", "D">>

\* ID NUMBER PRIMARY KEY, NAME VARCHAR(50) NOT NULL
bodyEMP == <<"I", "D", " ", "N", "U", "M", "B", "E", "R", " ", "P", "R", "I", "M", "A", "R", "Y", " ", "K", "E", "Y", ",", " ", "N", "A", "M", "E", " ", "V", "A", "R", "C", "H", "A", "R", "(", "5", "0", ")", " ", "N", "O", "T", " ", "N", "U", "L", "L">>
\* ID NUMBER, EMP_ID NUMBER, FOREIGN KEY (EMP_ID) REFERENCES EMP(ID)
bodyORD == <<"I", "D", " ", "N", "U", "M", "B", "E", "R", ",", " ", "E", "M", "P", "_", "I", "D", " ", "N", "U", "M", "B", "E", "R", ",", " ", "F", "O", "R", "E", "I", "G", "N", " ", "K", "E", "Y", " ", "(", "E", "M", "P", "_", "I", "D", ")", " ", "R", "E", "F", "E", "R", "E", "N", "C", "E", "S", " ", "E", "M", "P", "(", "I", "D", ")">>
\* A NUMBER NOT NULL, B CLOB
bodyDEP == <<"A", " ", "N", "U", "M", "B", "E", "R", " ", "N", "O", "T", " ", "N", "U", "L", "L", ",", " ", "B", " ", "C", "L", "O", "B">>
\* PRIMARY KEY (ID)
bodyBAD == <<"P", "R", "I", "M", "A", "R", "Y", " ", "K", "E", "Y", " ", "(", "I", "D", ")">>
\* A NUMBER, "A" DATE
bodyDUP == <<"A", " ", "N", "U", "M", "B", "E", "R", ",", " ", "\"", "A", "\"", " ", "D", "A", "T", "E">>
\* ID NUMBER, CONSTRAINT PK_P PRIMARY KEY (ID)
bodyPK == <<"I", "D", " ", "N", "U", "M", "B", "E", "R", ",", " ", "C", "O", "N", "S", "T", "R", "A", "I", "N", "T", " ", "P", "K", "_", "P", " ", "P", "R", "I", "M", "A", "R", "Y", " ", "K", "E", "Y", " ", "(", "I", "D", ")">>
\* ID NUMBER, CONSTRAINT FK_O FOREIGN KEY (ID) REFERENCES EMP(ID)
bodyFKC == <<"I", "D", " ", "N", "U", "M", "B", "E", "R", ",", " ", "C", "O", "N", "S", "T", "R", "A", "I", "N", "T", " ", "F", "K", "_", "O", " ", "F", "O", "R", "E", "I", "G", "N", " ", "K", "E", "Y", " ", "(", "I", "D", ")", " ", "R", "E", "F", "E", "R", "E", "N", "C", "E", "S", " ", "E", "M", "P", "(", "I", "D", ")">>

stEMP == CreateTable(nEMP, bodyEMP)
stORD == CreateTable(nORD, bodyORD)
stDEP == CreateTable(<<"D", "E", "P">>, bodyDEP)
stBAD == CreateTable(<<"B", "A", "D">>, bodyBAD)
\* create table "EMP" (X DATE);
stEMP2 == <<"c", "r", "e", "a", "t", "e", " ", "t", "a", "b", "l", "e", " ", "\"", "E", "M", "P", "\"", " ", "(", "X", " ", "D", "A", "T", "E", ")", ";">>
stDUP == CreateTable(<<"T">>, bodyDUP)
stPK  == CreateTable(<<"P">>, bodyPK)
stFKC == CreateTable(nORD, bodyFKC)
alFK  == AlterTable(nORD, <<"F", "K", "1">>, nEMP_ID, nEMP, nID)
alDangling == AlterTable(nORD, <<"F", "K", "2">>, <<"X">>, <<"N", "O", "P", "E">>, nID)

StatementPool ==
  <<stEMP, stORD, stDEP, stBAD, stEMP2, stDUP, stPK, stFKC, alFK, alDangling>>

\* the number of statements of a small source text
MaxStmts == 2

\* the statements of the pool, by index, joined by newlines
RECURSIVE Join(_)
Join(ix) ==
  IF ix = <<>> THEN <<>>
  ELSE StatementPool[Head(ix)] \o NL \o Join(Tail(ix))

SmallTexts ==
  {Join(ix) : ix \in UNION {[1..n -> 1..Len(StatementPool)] : n \in 0..MaxStmts}}

\* the decimal digits of a natural number
DigitOf == <<"0", "1", "2", "3", "4", "5", "6", "7", "8", "9">>

RECURSIVE Decimal(_)
Decimal(n) ==
  IF n < 10 THEN <<DigitOf[n + 1]>>
  ELSE Decimal(n \div 10) \o <<DigitOf[(n % 10) + 1]>>

\* the name of the k-th table of a large text: T1, T2, ...
TableName(k) == <<"T">> \o Decimal(k)

\* CREATE TABLE Tlo (A B); ... CREATE TABLE Thi (A B);
RECURSIVE ManyTables(_, _)
ManyTables(lo, hi) ==
  IF lo > hi THEN <<>>
  ELSE IF lo = hi THEN CreateTable(TableName(lo), <<"A", " ", "B">>) \o NL
  ELSE LET mid == (lo + hi) \div 2
       IN  ManyTables(lo, mid) \o ManyTables(mid + 1, hi)

\* the table counts of the large texts: at the threshold of the partitioned
\* form, just above it, and three full partitions
LargeCounts == {100, 101, 150}

\* the endpoints of the out-of-line foreign keys of the large texts; table 0
\* stands for a table no statement defines
LargeLinks == <<<<1, 2>>, <<1, 51>>, <<1, 0>>, <<101, 1>>>>

\* the number of out-of-line foreign keys of a large text
MaxLinks == 2

LinkStatement(l) ==
  AlterTable(TableName(l[1]), <<"F", "K">>, <<"A">>, TableName(l[2]), <<"A">>)

RECURSIVE LinkStatements(_, _)
LinkStatements(chosen, k) ==
  IF k > Len(LargeLinks) THEN <<>>
  ELSE (IF k \in chosen THEN LinkStatement(LargeLinks[k]) \o NL ELSE <<>>)
         \o LinkStatements(chosen, k + 1)

LargeTexts ==
  {ManyTables(1, n) \o LinkStatements(chosen, 1) :
     n \in LargeCounts,
     chosen \in {c \in SUBSET (1..Len(LargeLinks)) : Cardinality(c) <= MaxLinks}}

Texts == SmallTexts \cup LargeTexts

-----------------------------------------------------------------------------
(* Rendering                                                               *)

\* `if (totalTables > 100)`: the largest schema rendered as one document
MaxSingleTables == 100

\* `const partitionSize = 50`
partitionSize == 50

Min(a, b) == IF a <= b THEN a ELSE b

\* Math.ceil(tablesArray.length / partitionSize)
totalPartitions(n) == (n + partitionSize - 1) \div partitionSize

\* a bug to test the claims against: the check for an empty schema is missing
NeverEmpty(map) == FALSE

\* `tables.size === 0`
NoTablesFound(map) == Len(map) = 0

\* a bug to test the claims against: the partitioned form already at the threshold
IsLargeFromThreshold(n) == n >= MaxSingleTables

\* `tables.size > 100`
IsLarge(n) == n > MaxSingleTables

\* a bug to test the claims against: one endpoint in the schema is enough
EitherExists(map, rel) == MapHas(map, rel.from) \/ MapHas(map, rel.to)

\* `tables.has(rel.from) && tables.has(rel.to)`
BothExist(map, rel) == MapHas(map, rel.from) /\ MapHas(map, rel.to)

\* a bug to test the claims against: one endpoint in the partition is enough
EitherInPartition(partitionTables, rel) ==
  MapHas(partitionTables, rel.from) \/ MapHas(partitionTables, rel.to)

\* `partitionTableNames.includes(rel.from) && partitionTableNames.includes(rel.to)`
BothInPartition(partitionTables, rel) ==
  MapHas(partitionTables, rel.from) /\ MapHas(partitionTables, rel.to)

\* the line of one column in a diagram block: `TYPE name`, then ` PK`, then
\* ` "NOT NULL"`
DiagramColumn(column) ==
  [type    |-> column.type,
   name    |-> cleanName(column.name),
   pk      |-> column.isPrimaryKey,
   notNull |-> column.isNotNull /\ ~column.isPrimaryKey]

\* the block of one table in a diagram
DiagramTable(table) ==
  [name    |-> cleanName(table.name),
   columns |-> [i \in 1..Len(table.columns) |-> DiagramColumn(table.columns[i])]]

\* the line `from ||--o{ to : "references"`
RelationLine(rel) == [from |-> cleanName(rel.from), to |-> cleanName(rel.to)]

\* the rows of one table in the column listing
TableListing(table) ==
  [name |-> table.name,
   rows |-> [i \in 1..Len(table.columns) |->
               [column |-> table.columns[i].name,
                type   |-> table.columns[i].type,
                characteristics |->
                  (IF table.columns[i].isPrimaryKey THEN <<"PK">> ELSE <<>>)
                    \o (IF table.columns[i].isNotNull THEN <<"NOT NULL">> ELSE <<>>)]]]

Map(f(_), seq) == [i \in 1..Len(seq) |-> f(seq[i])]

\* generateMermaidDiagram, for a schema of at most 100 tables
generateMermaidDiagram(map, rels) ==
  [tables        |-> Map(DiagramTable, map),
   relationships |-> Map(RelationLine, SelectSeq(rels, LAMBDA r : BothExist(map, r)))]

\* generateMarkdownContent, for a schema of at most 100 tables
generateMarkdownContent(map, rels) ==
  [kind              |-> "single",
   tableCount        |-> Len(map),
   relationshipCount |-> Len(rels),
   diagram           |-> generateMermaidDiagram(map, rels),
   tables            |-> Map(TableListing, map),
   relationships     |-> rels]

\* the document of partition i (0-based) in generatePartitionedDiagrams
partitionContent(map, rels, i) ==
  LET startIndex == i * partitionSize
      endIndex   == Min(startIndex + partitionSize, Len(map))
      partitionTables == SubSeq(map, startIndex + 1, endIndex)
      partitionRelationships ==
        SelectSeq(rels, LAMBDA r : BothInPartition(partitionTables, r))
  IN  [kind          |-> "partition",
       number        |-> i + 1,
       total         |-> totalPartitions(Len(map)),
       first         |-> startIndex + 1,
       last          |-> endIndex,
       count         |-> Len(partitionTables),
       previous      |-> IF i > 0 THEN i ELSE 0,
       next          |-> IF i < totalPartitions(Len(map)) - 1 THEN i + 2 ELSE 0,
       diagram       |-> [tables        |-> Map(DiagramTable, partitionTables),
                          relationships |-> Map(RelationLine, partitionRelationships)],
       tables        |-> Map(TableListing, partitionTables),
       relationships |-> partitionRelationships]

\* the entry the index gets for a partition
indexEntry(content) ==
  [number    |-> content.number,
   first     |-> content.first,
   last      |-> content.last,
   count     |-> content.count,
   relations |-> Len(content.relationships)]

-----------------------------------------------------------------------------
(* The run of the script                                                   *)

Init ==
  /\ sql \in Texts
  /\ pc = "createTable"
  /\ lastIndex = 0
  /\ match = NoMatch
  /\ tables = <<>>
  /\ relationships = <<>>
  /\ partition = 0
  /\ indexContent = <<>>
  /\ writes = <<>>
  /\ arg = <<>>
  /\ ret = <<>>

\* the end of an iteration of the createTable loop: the table is registered
\* when it has a valid column, and its relationships are kept either way
Register(m, tableName, parsed) ==
  /\ match' = [ok |-> TRUE, index |-> m.index, groups |-> m.groups]
  /\ lastIndex' = m.lastIndex
  /\ relationships' = relationships \o parsed.relationships
  /\ tables' = IF HasValidColumns(parsed.columns)
                 THEN MapSet(tables, tableName,
                             [columns     |-> parsed.columns,
                              constraints |-> parsed.constraints])
                 ELSE tables

ScanTable(m, tableName) == Register(m, tableName, ParseTable(tableName, m.groups[2]))

ScanMatch(m) == m.ok /\ ScanTable(m, cleanName(m.groups[1]))

\* an iteration of `while ((match = createTableRegex.exec(sql)) !== null)`
CreateTableStep ==
  /\ pc = "createTable"
  /\ ScanMatch(createTableRegex(sql, lastIndex))
  /\ UNCHANGED <<sql, pc, partition, indexContent, writes, arg, ret>>

\* the exit of the loop: exec returns null; the next loop uses alterConstraintRegex
CreateTableEnd ==
  /\ pc = "createTable"
  /\ ~createTableRegex(sql, lastIndex).ok
  /\ match' = NoMatch
  /\ lastIndex' = 0
  /\ pc' = "alterConstraint"
  /\ UNCHANGED <<sql, tables, relationships, partition, indexContent, writes, arg, ret>>

AlterMatch(m) ==
  /\ m.ok
  /\ match' = [ok |-> TRUE, index |-> m.index, groups |-> m.groups]
  /\ lastIndex' = m.lastIndex
  /\ relationships' =
       Append(relationships,
              [from        |-> cleanName(m.groups[1]),
               to          |-> cleanName(m.groups[3]),
               fromColumns |-> ColumnList(m.groups[2]),
               toColumns   |-> ColumnList(m.groups[4])])

\* an iteration of `while ((match = alterConstraintRegex.exec(sql)) !== null)`
AlterConstraintStep ==
  /\ pc = "alterConstraint"
  /\ AlterMatch(alterConstraintRegex(sql, lastIndex))
  /\ UNCHANGED <<sql, pc, tables, partition, indexContent, writes, arg, ret>>

AlterConstraintEnd ==
  /\ pc = "alterConstraint"
  /\ ~alterConstraintRegex(sql, lastIndex).ok
  /\ match' = NoMatch
  /\ lastIndex' = 0
  /\ pc' = "output"
  /\ UNCHANGED <<sql, tables, relationships, partition, indexContent, writes, arg, ret>>

\* `if (tables.size === 0) { ...; process.exit(0); }`
NoTables ==
  /\ pc = "output"
  /\ NoTablesFound(tables)
  /\ pc' = "exit0"
  /\ UNCHANGED <<sql, lastIndex, match, tables, relationships, partition,
                 indexContent, writes, arg, ret>>

\* the single document: generateMarkdownContent and fs.writeFileSync(outputFile)
WriteSingle ==
  /\ pc = "output"
  /\ ~NoTablesFound(tables)
  /\ ~IsLarge(Len(tables))
  /\ \E ok \in BOOLEAN :
       /\ writes' = Append(writes, [file    |-> <<"output">>,
                                    content |-> generateMarkdownContent(tables, relationships),
                                    ok      |-> ok])
       /\ pc' = IF ok THEN "done" ELSE "exit1"
  /\ UNCHANGED <<sql, lastIndex, match, tables, relationships, partition,
                 indexContent, arg, ret>>

\* the entry into generatePartitionedDiagrams: the head of the index
BeginPartitions ==
  /\ pc = "output"
  /\ IsLarge(Len(tables))
  /\ pc' = "partitions"
  /\ partition' = 0
  /\ indexContent' = <<[tableCount        |-> Len(tables),
                        relationshipCount |-> Len(relationships),
                        partitions        |-> totalPartitions(Len(tables))]>>
  /\ UNCHANGED <<sql, lastIndex, match, tables, relationships, writes, arg, ret>>

\* an iteration of `for (let i = 0; i < totalPartitions; i++)`: the write of a
\* partition is in a try whose catch only logs
WritePartition ==
  /\ pc = "partitions"
  /\ partition < totalPartitions(Len(tables))
  /\ LET content == partitionContent(tables, relationships, partition)
     IN  /\ \E ok \in BOOLEAN :
               writes' = Append(writes, [file    |-> <<"parte", partition + 1>>,
                                         content |-> content,
                                         ok      |-> ok])
         /\ indexContent' = Append(indexContent, indexEntry(content))
  /\ partition' = partition + 1
  /\ UNCHANGED <<sql, pc, lastIndex, match, tables, relationships, arg, ret>>

\* the end of generatePartitionedDiagrams and the write of the index
WriteIndex ==
  /\ pc = "partitions"
  /\ partition >= totalPartitions(Len(tables))
  /\ \E ok \in BOOLEAN :
       /\ writes' = Append(writes, [file    |-> <<"index">>,
                                    content |-> [kind          |-> "index",
                                                 sections      |-> indexContent,
                                                 relationships |-> relationships],
                                    ok      |-> ok])
       /\ pc' = IF ok THEN "done" ELSE "exit1"
  /\ UNCHANGED <<sql, lastIndex, match, tables, relationships, partition,
                 indexContent, arg, ret>>

Next ==
  \/ CreateTableStep
  \/ CreateTableEnd
  \/ AlterConstraintStep
  \/ AlterConstraintEnd
  \/ NoTables
  \/ WriteSingle
  \/ BeginPartitions
  \/ WritePartition
  \/ WriteIndex

Spec == Init /\ [][Next]_vars

-----------------------------------------------------------------------------
(* The functions on their own: each specification draws an argument, calls *)
(* the function and keeps what it returns.                                 *)

\* the rest of the state while a function is exercised on its own
Idle ==
  /\ sql = <<>>
  /\ lastIndex = 0
  /\ match = NoMatch
  /\ tables = <<>>
  /\ relationships = <<>>
  /\ partition = 0
  /\ indexContent = <<>>
  /\ writes = <<>>

UnchangedRun ==
  UNCHANGED <<sql, lastIndex, match, tables, relationships, partition,
              indexContent, writes>>

\* all sequences over S of length at most n
SeqUpTo(S, n) == UNION {[1..k -> S] : k \in 0..n}

\* the length of a raw identifier token
MaxTokenLen == 3

TokenChars == {"a", "Z", "0", "_", "\"", Backquote, "[", ".", "#", " ", "-"}

InitNormalizer ==
  /\ Idle
  /\ pc = "call"
  /\ arg \in SeqUpTo(TokenChars, MaxTokenLen)
  /\ ret = <<>>

\* cleanName(arg)
CallCleanName ==
  /\ pc = "call"
  /\ ret' = <<cleanName(arg)>>
  /\ pc' = "returned"
  /\ UNCHANGED arg
  /\ UnchangedRun

\* the canonical name fed through cleanName again
CallCleanNameAgain ==
  /\ pc = "returned"
  /\ ret' = Append(ret, cleanName(ret[1]))
  /\ pc' = "again"
  /\ UNCHANGED arg
  /\ UnchangedRun

NextNormalizer == CallCleanName \/ CallCleanNameAgain

SpecNormalizer == InitNormalizer /\ [][NextNormalizer]_vars

\* the number of fragments of a type string
MaxFragments == 2

TypeFragments ==
  {kVARCHAR, kCHAR, kNUMBER, kINTEGER, kDECIMAL, kDATE, kTIMESTAMP, kCLOB, kBLOB,
   <<"c", "h", "a", "r">>, <<"N", "u", "m", "b", "e", "r">>, <<"X">>, <<"2">>}

TypeStrings ==
  {Flatten(fs) : fs \in SeqUpTo(TypeFragments, MaxFragments)}

InitClassifier ==
  /\ Idle
  /\ pc = "call"
  /\ arg \in TypeStrings
  /\ ret = <<>>

\* simplifyDataType(arg)
CallSimplifyDataType ==
  /\ pc = "call"
  /\ ret' = simplifyDataType(arg)
  /\ pc' = "returned"
  /\ UNCHANGED arg
  /\ UnchangedRun

NextClassifier == CallSimplifyDataType

SpecClassifier == InitClassifier /\ [][NextClassifier]_vars

\* the length of a table body
MaxBodyLen == 5

BodyChars == {"a", ",", "(", ")", " "}

InitSplitter ==
  /\ Idle
  /\ pc = "call"
  /\ arg \in SeqUpTo(BodyChars, MaxBodyLen)
  /\ ret = <<>>

\* the split of the body arg into lines
CallLines ==
  /\ pc = "call"
  /\ ret' = lines(arg)
  /\ pc' = "returned"
  /\ UNCHANGED arg
  /\ UnchangedRun

NextSplitter == CallLines

SpecSplitter == InitSplitter /\ [][NextSplitter]_vars

-----------------------------------------------------------------------------
(* Claims about the functions                                              *)

\* C9: the Name Normalizer is idempotent: a canonical name fed through it
\* again is unchanged, and a canonical name holds only letters, digits and
\* underscores.
C9_NormalizerIdempotent ==
  pc = "again" =>
    /\ ret[2] = ret[1]
    /\ \A i \in 1..Len(ret[1]) : ret[1][i] \in WordChar

\* a token with a "#" and a quote, normalized twice
C9_Witness ==
  /\ pc = "again"
  /\ arg = <<"\"", "a", "#">>
  /\ ret[1] = <<"a", "_", "N", "U", "M">>

\* the rules of the Type Classifier, in their order of priority
TypeRules ==
  <<[category |-> "STRING", words |-> {kVARCHAR, kCHAR}],
    [category |-> "NUMBER", words |-> {kNUMBER, kINTEGER, kDECIMAL}],
    [category |-> "DATE",   words |-> {kDATE, kTIMESTAMP}],
    [category |-> "LOB",    words |-> {kCLOB, kBLOB}]>>

RuleMatches(k, type) == \E w \in TypeRules[k].words : includes(toUpperCase(type), w)

FirstRuleCategory(type) ==
  IF \E k \in 1..Len(TypeRules) : RuleMatches(k, type)
    THEN TypeRules[CHOOSE k \in 1..Len(TypeRules) :
                     /\ RuleMatches(k, type)
                     /\ \A j \in 1..(k - 1) : ~RuleMatches(j, type)].category
    ELSE "OTHER"

\* C10: the Type Classifier returns the category of the first rule, in the
\* order STRING, NUMBER, DATE, LOB, that matches the type string whatever its
\* case, and OTHER when none does; a type string with both CHAR and NUMBER is
\* a STRING.
C10_ClassifierPriority ==
  pc = "returned" =>
    /\ ret = FirstRuleCategory(arg)
    /\ (includes(toUpperCase(arg), kCHAR) /\ includes(toUpperCase(arg), kNUMBER))
         => ret = "STRING"

\* a type string with NUMBER before a lower-case char, classified STRING
C10_Witness ==
  /\ pc = "returned"
  /\ arg = kNUMBER \o <<"c", "h", "a", "r">>
  /\ ret = "STRING"

\* the count of "(" minus ")" in the first i characters of the body
Depth(body, i) ==
  Cardinality({j \in 1..i : body[j] = "("}) - Cardinality({j \in 1..i : body[j] = ")"})

TopLevelCommas(body) == {i \in 1..Len(body) : body[i] = "," /\ Depth(body, i) = 0}

\* the number of top-level comma-separated members of the body
MemberCount(body) == Cardinality(TopLevelCommas(body)) + 1

\* the position of the k-th top-level comma; 0 before the first member and
\* Len(body) + 1 after the last
CommaAt(body, k) ==
  IF k = 0 THEN 0
  ELSE IF k = MemberCount(body) THEN Len(body) + 1
  ELSE CHOOSE i \in TopLevelCommas(body) :
         Cardinality({j \in TopLevelCommas(body) : j <= i}) = k

\* the text of the k-th member
Member(body, k) == SubSeq(body, CommaAt(body, k - 1) + 1, CommaAt(body, k) - 1)

\* C4 as stated: a body with N top-level comma-separated members is split
\* into exactly N member strings, in source order, and a comma inside
\* parentheses never starts a new member.
C4_SplitterCountAsStated ==
  pc = "returned" =>
    /\ Len(ret) = MemberCount(arg)
    /\ \A k \in 1..Len(ret) : ret[k] = trim(Member(arg, k))

\* C4 as amended: the Splitter returns the top-level members in source
\* order, each trimmed, except that a blank last member is dropped: N strings
\* when the text after the last top-level comma is not blank, N - 1 when it
\* is; a comma inside parentheses never starts a new member.
C4_SplitterCount ==
  pc = "returned" =>
    /\ Len(ret) = IF trim(Member(arg, MemberCount(arg))) = <<>>
                    THEN MemberCount(arg) - 1
                    ELSE MemberCount(arg)
    /\ \A k \in 1..Len(ret) : ret[k] = trim(Member(arg, k))

\* a body with a comma inside parentheses and a blank last member
C4_Witness ==
  /\ pc = "returned"
  /\ arg = <<"a", "(", ",", ")", ",">>
  /\ ret = <<<<"a", "(", ",", ")">>>>

-----------------------------------------------------------------------------
(* Claims about the scan                                                   *)

\* the position of the ")" that closes the "(" at position o, searched up to
\* position hi; 0 when there is none
MatchingParen(t, o, hi) ==
  First(LAMBDA p : t[p] = ")" /\
                   Cardinality({j \in o..p : t[j] = "("})
                     = Cardinality({j \in o..p : t[j] = ")"}),
        o + 1, hi)

\* the position of the first "(" at or after position p; 0 when there is none
OpenParen(t, p) == First(LAMBDA i : t[i] = "(", p, Len(t))

\* the text between the first "(" of a statement and the ")" that closes it
OutermostBody(statement) ==
  LET o == OpenParen(statement, 1)
  IN  SubSeq(statement, o + 1, MatchingParen(statement, o, Len(statement)) - 1)

\* C3: the body handed to the Splitter for a recognized statement with
\* balanced parentheses is the text between the opening parenthesis after
\* the table name and the closing parenthesis that matches it.
C3_BodyBetweenOutermostParens ==
  (pc = "createTable" /\ match.ok) =>
    LET o == OpenParen(sql, match.index + 1)
        c == MatchingParen(sql, o, lastIndex)
    IN  c # 0 => match.groups[2] = SubSeq(sql, o + 1, c - 1)

\* the statements of the pool whose body is a list of column definitions
ColumnStatements == {stEMP, stDEP, stEMP2, stDUP}

\* the raw table name of a statement of the pool
RawName(statement) ==
  LET a == Len(kCREATE) + Len(kTABLE) + 3
  IN  SubSeq(statement, a, OpenParen(statement, 1) - 2)

\* C1: a text of one table definition whose body is a list of column
\* definitions gives one Table under the normalized name, one Column per
\* member in source order with isPrimaryKey iff the member has PRIMARY KEY
\* and isNotNull iff it has NOT NULL and is not primary key, and no
\* relationship; the EMP example gives ID: NUMBER, primary key, and
\* NAME: STRING, not null.
C1_ColumnsOfOneStatement ==
  \A st \in ColumnStatements :
    (sql = st \o NL /\ pc = "output") =>
      LET body == OutermostBody(st)
      IN  /\ Len(tables) = 1
          /\ relationships = <<>>
          /\ tables[1].name = cleanName(RawName(st))
          /\ Len(tables[1].columns) = MemberCount(body)
          /\ \A k \in 1..Len(tables[1].columns) :
               LET member == toUpperCase(Member(body, k))
                   column == tables[1].columns[k]
               IN  /\ column.isPrimaryKey = includes(member, kPRIMARY_KEY)
                   /\ column.isNotNull =
                        (includes(member, kNOT_NULL) /\ ~column.isPrimaryKey)
          /\ st = stEMP =>
               tables[1].columns =
                 <<[name |-> nID, type |-> "NUMBER",
                    isPrimaryKey |-> TRUE, isNotNull |-> FALSE],
                   [name |-> <<"N", "A", "M", "E">>, type |-> "STRING",
                    isPrimaryKey |-> FALSE, isNotNull |-> TRUE]>>

\* C2: the ORD statement, with its inline FOREIGN KEY clause, followed by the
\* EMP statement gives the one Relationship ORD(EMP_ID) -> EMP(ID), the
\* clause is no column of ORD, and the diagram has the line from ORD to EMP.
C2_InlineForeignKey ==
  (sql = stORD \o NL \o stEMP \o NL /\ pc \in {"output", "done"}) =>
    /\ relationships = <<[from |-> nORD, fromColumns |-> <<nEMP_ID>>,
                          to |-> nEMP, toColumns |-> <<nID>>]>>
    /\ \E i \in 1..Len(tables) :
         /\ tables[i].name = nORD
         /\ [k \in 1..Len(tables[i].columns) |-> tables[i].columns[k].name]
              = <<nID, nEMP_ID>>
    /\ pc = "done" =>
         \E k \in 1..Len(writes[1].content.diagram.relationships) :
           writes[1].content.diagram.relationships[k] = [from |-> nORD, to |-> nEMP]

\* C8: a table definition whose body yields no valid column registers no
\* Table, so every Table of the Schema has at least one column.
C8_NoTableWithoutColumns ==
  /\ [](\A i \in 1..Len(tables) : Len(tables[i].columns) > 0)
  /\ [][(CreateTableStep
          /\ ParseTable(cleanName(match'.groups[1]), match'.groups[2]).columns = <<>>)
          => tables' = tables]_vars

\* the BAD statement, which has no valid column, scanned after the DEP
\* statement: the Schema holds DEP alone
C8_Witness ==
  /\ sql = stDEP \o NL \o stBAD \o NL
  /\ pc = "createTable"
  /\ match.ok
  /\ match.groups[1] = <<"B", "A", "D">>
  /\ Len(tables) = 1

-----------------------------------------------------------------------------
(* Claims about the rendering                                              *)

TableNames == {tables[i].name : i \in 1..Len(tables)}

\* the line a relationship has in a diagram block
LineOf(rel) == [from |-> rel.from, to |-> rel.to]

\* the relationship lines of the diagram block of a written document
DiagramLines(w) ==
  {w.content.diagram.relationships[k] :
     k \in 1..Len(w.content.diagram.relationships)}

\* the names of the tables at the discovery positions of chunk k, in order
ChunkNames(k) ==
  LET first == 50 * (k - 1) + 1
      last  == IF 50 * k <= Len(tables) THEN 50 * k ELSE Len(tables)
  IN  [j \in 1..(last - first + 1) |-> tables[first + j - 1].name]

\* C5: a Relationship whose source or target table is no key of the table
\* map stays in the full relationship list, so in the relationship table and
\* count of the single document and of the index, and has no line in any
\* diagram block, of the single document or of a chunk.
C5_DanglingRelationships ==
  \A n \in 1..Len(writes) : \A i \in 1..Len(relationships) :
    LET w == writes[n]
        r == relationships[i]
    IN  (r.from \notin TableNames \/ r.to \notin TableNames) =>
          /\ w.content.kind \in {"single", "partition"} => LineOf(r) \notin DiagramLines(w)
          /\ w.content.kind = "single" =>
               /\ w.content.relationships = relationships
               /\ w.content.relationshipCount = Len(relationships)
          /\ w.content.kind = "index" =>
               /\ w.content.relationships = relationships
               /\ w.content.sections[1].relationshipCount = Len(relationships)

\* 101 tables with a foreign key from T1 to T2 and one from T1 to a table
\* that is not defined: chunk 1 draws the first only, the index lists both
C5_Witness ==
  /\ pc = "done"
  /\ sql = ManyTables(1, 101) \o LinkStatements({1, 3}, 1)
  /\ Len(relationships) = 2
  /\ relationships[2].to \notin TableNames
  /\ DiagramLines(writes[1]) = {LineOf(relationships[1])}
  /\ writes[4].content.relationships = relationships

\* C6: a Schema of n <= 100 tables gives one single document and no chunk or
\* index; one of n > 100 tables gives ceil(n / 50) chunk documents and one
\* index, chunk k holding the tables at the discovery positions
\* 50(k-1)+1 .. min(50k, n) in order, every chunk but the last 50 of them.
C6_DocumentsByTableCount ==
  pc \in {"done", "exit1"} =>
    LET n      == Len(tables)
        chunks == (n + 49) \div 50
    IN  IF n <= 100
          THEN /\ Len(writes) = 1
               /\ writes[1].content.kind = "single"
               /\ [i \in 1..n |-> writes[1].content.tables[i].name]
                    = [i \in 1..n |-> tables[i].name]
          ELSE /\ Len(writes) = chunks + 1
               /\ writes[chunks + 1].content.kind = "index"
               /\ \A k \in 1..chunks :
                    /\ writes[k].content.kind = "partition"
                    /\ writes[k].file = <<"parte", k>>
                    /\ [j \in 1..Len(writes[k].content.tables) |->
                          writes[k].content.tables[j].name] = ChunkNames(k)
                    /\ [j \in 1..Len(writes[k].content.diagram.tables) |->
                          writes[k].content.diagram.tables[j].name] = ChunkNames(k)
                    /\ k < chunks => Len(writes[k].content.tables) = 50

\* 150 tables: three chunks of 50 and the index
C6_Witness ==
  /\ pc = "done"
  /\ Len(tables) = 150
  /\ Len(writes) = 4
  /\ \A k \in 1..3 : writes[k].content.count = 50
  /\ writes[4].content.kind = "index"

\* C7: in the partitioned form the diagram block of chunk k has the line of a
\* relationship iff both its tables belong to chunk k, so a relationship
\* between two chunks is in no diagram block; the index lists every
\* relationship.
C7_ChunkRelationships ==
  \A n \in 1..Len(writes) :
    LET w == writes[n]
    IN  /\ w.content.kind = "partition" =>
             \A i \in 1..Len(relationships) :
               LET r     == relationships[i]
                   names == {ChunkNames(w.content.number)[j] :
                               j \in 1..Len(ChunkNames(w.content.number))}
               IN  LineOf(r) \in DiagramLines(w) <=> (r.from \in names /\ r.to \in names)
        /\ w.content.kind = "index" => w.content.relationships = relationships

\* 101 tables with a foreign key from T1 to T2, inside chunk 1, and one from
\* T1 to T51, between chunks 1 and 2
C7_Witness ==
  /\ pc = "done"
  /\ sql = ManyTables(1, 101) \o LinkStatements({1, 2}, 1)
  /\ Len(relationships) = 2
  /\ DiagramLines(writes[1]) = {LineOf(relationships[1])}
  /\ DiagramLines(writes[2]) = {}
  /\ DiagramLines(writes[3]) = {}
  /\ writes[4].content.relationships = relationships

-----------------------------------------------------------------------------
(* Claims about the outcome of the run                                     *)

\* C11: when the scans leave the Schema with zero tables the run ends as a
\* successful no-op: from the zero-table check the only step is the exit with
\* status 0, no document (single, chunk or index) is ever written and the
\* renderer is never entered, whatever relationships were collected.
C11_ZeroTablesNoOp ==
  /\ []((Len(tables) = 0 /\ pc \notin {"createTable", "alterConstraint"})
          => (pc \in {"output", "exit0"} /\ writes = <<>>))
  /\ [][(pc = "output" /\ Len(tables) = 0) => (pc' = "exit0" /\ writes' = <<>>)]_vars

\* the BAD statement, which registers no table, and an out-of-line foreign
\* key: the run has exited with status 0, one relationship, nothing written
C11_Witness ==
  /\ sql = stBAD \o NL \o alFK \o NL
  /\ pc = "exit0"
  /\ Len(tables) = 0
  /\ Len(relationships) = 1
  /\ writes = <<>>

\* C12: in every Table of the Schema the column names are pairwise distinct,
\* and the table names are pairwise distinct keys of the Schema.
C12_UniqueNames ==
  /\ \A i, j \in 1..Len(tables) : tables[i].name = tables[j].name => i = j
  /\ \A i \in 1..Len(tables) :
       \A a, b \in 1..Len(tables[i].columns) :
         tables[i].columns[a].name = tables[i].columns[b].name => a = b

\* C13: the statement P, whose body has the member CONSTRAINT PK_P PRIMARY
\* KEY (ID), gives a Table whose column ID has isPrimaryKey = true and is
\* drawn with the PK marker, and which keeps no primary-key constraint record.
C13_PrimaryKeyFolded ==
  (sql = stPK \o NL /\ pc \in {"output", "done"}) =>
    /\ Len(tables) = 1
    /\ \E k \in 1..Len(tables[1].columns) : tables[1].columns[k].name = nID
    /\ \A k \in 1..Len(tables[1].columns) :
         tables[1].columns[k].name = nID => tables[1].columns[k].isPrimaryKey
    /\ \A k \in 1..Len(tables[1].constraints) : tables[1].constraints[k].type # "PK"
    /\ pc = "done" =>
         \A k \in 1..Len(writes[1].content.diagram.tables[1].columns) :
           LET column == writes[1].content.diagram.tables[1].columns[k]
           IN  column.name = nID => column.pk

\* C14: a step of the CREATE TABLE scan whose statement has a valid column
\* leaves exactly one entry under the statement's normalized table name, with
\* the columns of that statement, so of two statements of one name the later
\* one stays; table names stay pairwise distinct; and no step removes,
\* changes or moves a relationship already collected.
C14_LaterDefinitionReplaces ==
  /\ [](\A i \in 1..Len(tables) : \A j \in 1..Len(tables) :
          i # j => tables[i].name # tables[j].name)
  /\ [][CreateTableStep =>
          LET name   == cleanName(match'.groups[1])
              parsed == ParseTable(name, match'.groups[2])
          IN  parsed.columns # <<>> =>
                /\ \E i \in 1..Len(tables') :
                     /\ tables'[i].name = name
                     /\ tables'[i].columns = parsed.columns
                /\ Len(tables') = IF name \in {tables[i].name : i \in 1..Len(tables)}
                                    THEN Len(tables) ELSE Len(tables) + 1]_vars
  /\ [][/\ Len(relationships') >= Len(relationships)
        /\ SubSeq(relationships', 1, Len(relationships)) = relationships]_vars

\* the EMP statement followed by a second statement of the name "EMP": after
\* the scan the Schema holds EMP once, with the column X of the second
C14_Witness ==
  /\ sql = stEMP \o NL \o stEMP2 \o NL
  /\ pc = "alterConstraint"
  /\ Len(tables) = 1
  /\ tables[1].name = nEMP
  /\ tables[1].columns = <<[name |-> <<"X">>, type |-> "DATE",
                            isPrimaryKey |-> FALSE, isNotNull |-> FALSE]>>

\* C15: a failed write of any document, single, chunk or index, is fatal: it
\* is the last write of the run, and the run has ended with the failure
\* status, so with no success report.
C15_WriteFailureFatal ==
  \A n \in 1..Len(writes) :
    ~writes[n].ok => (n = Len(writes) /\ pc = "exit1")

=============================================================================
